---- MODULE Spec2Model ----
(***************************************************************************)
(* Face verification page (Home component): the capture device lifecycle,  *)
(* the frame snapshot, the reference upload and the verification pipeline. *)
(*                                                                         *)
(* The component runs on one cooperative thread.  Every handler runs to    *)
(* its first await (or to its end) in one step; each await is a            *)
(* suspension point whose continuation is a step of its own.  A state      *)
(* update and the re-render that follows it are one step.                  *)
(*                                                                         *)
(* After the component is unmounted no button can be pressed, but the      *)
(* continuations that were pending still run; the state variables then     *)
(* hold the last value handed to their setter.                             *)
(***************************************************************************)
EXTENDS Integers, FiniteSets, Sequences, TLC

(* ------------------------------ bounds -------------------------------- *)

\* startCamera invocations over the component's life
MaxStarts == 2

\* distinct image contents (files picked, scenes in front of the camera)
MaxImages == 2

\* verifyFaces invocations over the component's life
MaxVerifies == 2

\* largest descriptor distance explored, in units of 0.00001
MaxDistance == 70000

(* ----------------------------- constants ------------------------------ *)

\* const threshold = 0.6, in units of 0.00001
threshold == 60000

StartIds == 1..MaxStarts
ImageIds == 1..MaxImages
VerifyIds == 1..MaxVerifies

(* ------------------------------- state -------------------------------- *)

VARIABLES
    mounted,            \* the component is mounted: videoRef.current and
                        \* canvasRef.current are non-null exactly then
    uploadedImage,      \* useState: 0 is null, else the content of the data URL
    cameraImage,        \* useState: [frame, n]; frame "null" is null
    verificationResult, \* useState: [kind, confidence]; kind "null" is null
    isLoading,          \* useState
    nets,               \* the face-api networks: "loading" (loadModels is
                        \* awaiting them), "loaded" or "failed"
    streamRef,          \* streamRef.current: 0 is null, else a stream
    srcObject,          \* videoRef.current.srcObject: 0 is unset, else a stream
    tracks,             \* per stream: "none" (not returned by the device yet),
                        \* "live" or "stopped"
    startPc,            \* per startCamera invocation: where it stands
    reading,            \* files a FileReader is still reading
    verifyCalls,        \* per verifyFaces invocation: position and locals
    last,               \* history: the locals of the verifyFaces invocation
                        \* that ended last, and the result it wrote
    resultFrom          \* history: the images the invocation that wrote the
                        \* result slot worked on; NoInputs when it was reset

vars == <<mounted, uploadedImage, cameraImage, verificationResult, isLoading,
          nets, streamRef, srcObject, tracks, startPc, reading, verifyCalls, last,
          resultFrom>>

cameraVars == <<streamRef, srcObject, tracks, startPc>>
verifyVars ==
    <<uploadedImage, isLoading, nets, reading, verifyCalls, last, resultFrom>>

\* The stream returned to the c-th startCamera invocation is stream c.

NullImage == [frame |-> "null", n |-> 0]
BlankImage == [frame |-> "blank", n |-> 0]

NullResult == [kind |-> "null", confidence |-> 0]
MissingInput == [kind |-> "missing-input", confidence |-> 0]
NoFaceDetected == [kind |-> "no-face-detected", confidence |-> 0]
VerificationError == [kind |-> "verification-error", confidence |-> 0]
NoMatch == [kind |-> "NoMatch", confidence |-> 0]
Match(tenths) == [kind |-> "Match", confidence |-> tenths]

Inputs(ref, snap) == [ref |-> ref, snap |-> snap]
NoInputs == Inputs(0, NullImage)

IdleCall ==
    [pc |-> "idle", ref |-> 0, snap |-> NullImage,
     uploadedDetections |-> "pending"]

\* The locals of an ended invocation: "pending" is a detection that never
\* resolved, distance -1 a distance that was never computed.
Run(u, k, d, threw, wrote) ==
    [uploadedDetections |-> u, cameraDetections |-> k, distance |-> d,
     threw |-> threw, wrote |-> wrote]

NoRun == Run("pending", "pending", -1, FALSE, NullResult)

Init ==
    /\ mounted = TRUE
    /\ uploadedImage = 0
    /\ cameraImage = NullImage
    /\ verificationResult = NullResult
    /\ isLoading = FALSE
    /\ nets = "loading"
    /\ streamRef = 0
    /\ srcObject = 0
    /\ tracks = [s \in StartIds |-> "none"]
    /\ startPc = [c \in StartIds |-> "idle"]
    /\ reading = {}
    /\ verifyCalls = [c \in VerifyIds |-> IdleCall]
    /\ last = NoRun
    /\ resultFrom = NoInputs

(* --------------------------- model loading ---------------------------- *)

\* loadModels, started by the mount effect: the three loadFromUri calls all
\* resolve.
loadModelsResolves ==
    /\ nets = "loading"
    /\ nets' = "loaded"
    /\ UNCHANGED <<mounted, cameraVars, uploadedImage, cameraImage,
                   verificationResult, isLoading, reading, verifyCalls, last,
                   resultFrom>>

\* One of the loadFromUri calls rejects: the catch block logs the error.
loadModelsRejects ==
    /\ nets = "loading"
    /\ nets' = "failed"
    /\ UNCHANGED <<mounted, cameraVars, uploadedImage, cameraImage,
                   verificationResult, isLoading, reading, verifyCalls, last,
                   resultFrom>>

(* ------------------------- capture device ----------------------------- *)

\* A release that stops no track.
KeepTracks(ref, tr) == tr

\* streamRef.current.getTracks().forEach(track => track.stop())
StopTracks(ref, tr) ==
    IF ref # 0 THEN [tr EXCEPT ![ref] = "stopped"] ELSE tr

\* startCamera up to its await of getUserMedia: the held stream is stopped,
\* then the device request is issued.
startCamera(c) ==
    /\ mounted
    /\ startPc[c] = "idle"
    /\ \A b \in StartIds : b < c => startPc[b] # "idle"
    /\ tracks' = StopTracks(streamRef, tracks)
    /\ startPc' = [startPc EXCEPT ![c] = "requesting"]
    /\ UNCHANGED <<mounted, streamRef, srcObject, cameraImage,
                   verificationResult, verifyVars>>

\* getUserMedia resolves: the stream is stored, bound to the video element
\* when there is one, and play() is awaited.
StoreStream(c) ==
    /\ streamRef' = c
    /\ IF mounted
          THEN /\ srcObject' = c
               /\ startPc' = [startPc EXCEPT ![c] = "playing"]
          ELSE /\ srcObject' = srcObject
               /\ startPc' = [startPc EXCEPT ![c] = "done"]

getUserMediaResolves(c) ==
    /\ startPc[c] = "requesting"
    /\ tracks' = [tracks EXCEPT ![c] = "live"]
    /\ StoreStream(c)
    /\ UNCHANGED <<mounted, cameraImage, verificationResult, verifyVars>>

\* getUserMedia rejects (permission denied, no device): the catch block
\* logs and alerts.
getUserMediaRejects(c) ==
    /\ startPc[c] = "requesting"
    /\ startPc' = [startPc EXCEPT ![c] = "failed"]
    /\ UNCHANGED <<mounted, streamRef, srcObject, tracks, cameraImage,
                   verificationResult, verifyVars>>

\* videoRef.current.play() resolves: startCamera returns.
playResolves(c) ==
    /\ startPc[c] = "playing"
    /\ startPc' = [startPc EXCEPT ![c] = "done"]
    /\ UNCHANGED <<mounted, streamRef, srcObject, tracks, cameraImage,
                   verificationResult, verifyVars>>

\* videoRef.current.play() rejects: the catch block logs and alerts; the
\* stream stays in streamRef.
playRejects(c) ==
    /\ startPc[c] = "playing"
    /\ startPc' = [startPc EXCEPT ![c] = "failed"]
    /\ UNCHANGED <<mounted, streamRef, srcObject, tracks, cameraImage,
                   verificationResult, verifyVars>>

\* The cleanup of the mount effect, run when the component unmounts.
Unmount ==
    /\ mounted
    /\ mounted' = FALSE
    /\ tracks' = StopTracks(streamRef, tracks)
    /\ UNCHANGED <<streamRef, srcObject, startPc, cameraImage,
                   verificationResult, verifyVars>>

(* --------------------------- frame snapshot --------------------------- *)

\* What drawing the video element onto the canvas and encoding it can give.
\* With no source the video's intrinsic size is 0 x 0 and the canvas encodes
\* to the empty image.  A source whose play() has not resolved may or may not
\* have a frame yet.  A source whose tracks were stopped shows its last frame
\* or nothing, depending on the browser.
FrameKinds ==
    IF srcObject = 0 THEN {"blank"}
    ELSE IF tracks[srcObject] = "stopped" THEN {"blank", "stale"}
    ELSE IF startPc[srcObject] = "done" THEN {"live"}
    ELSE {"blank", "live"}

Snapshot(kind, n) == IF kind = "blank" THEN BlankImage ELSE [frame |-> kind, n |-> n]

\* A capture that also releases the camera.
captureImageStopsCamera(kind, n) ==
    /\ mounted
    /\ kind \in FrameKinds
    /\ cameraImage' = Snapshot(kind, n)
    /\ verificationResult' = NullResult
    /\ resultFrom' = NoInputs
    /\ tracks' = StopTracks(streamRef, tracks)
    /\ UNCHANGED <<mounted, nets, streamRef, srcObject, startPc, uploadedImage,
                   isLoading, reading, verifyCalls, last>>

captureImage(kind, n) ==
    /\ mounted
    /\ kind \in FrameKinds
    /\ IF mounted  \* canvasRef.current && videoRef.current
          THEN /\ cameraImage' = Snapshot(kind, n)
               /\ verificationResult' = NullResult
               /\ resultFrom' = NoInputs
          ELSE UNCHANGED <<cameraImage, verificationResult, resultFrom>>
    /\ UNCHANGED <<mounted, nets, cameraVars, uploadedImage, isLoading, reading,
                   verifyCalls, last>>

(* -------------------------- reference upload -------------------------- *)

\* handleImageUpload: with a file chosen (file # 0) a FileReader starts
\* reading it; with none, nothing happens.
handleImageUpload(file) ==
    /\ mounted
    /\ reading' = IF file # 0 THEN reading \cup {file} ELSE reading
    /\ UNCHANGED <<mounted, nets, cameraVars, uploadedImage, cameraImage,
                   verificationResult, isLoading, verifyCalls, last, resultFrom>>

\* A reader.onload that stores the image and keeps the result on display.
readerOnloadKeepsResult(file) ==
    /\ file \in reading
    /\ reading' = reading \ {file}
    /\ uploadedImage' = file
    /\ UNCHANGED <<mounted, nets, cameraVars, cameraImage, verificationResult,
                   isLoading, verifyCalls, last, resultFrom>>

\* reader.onload: the data URL of a read file is never empty, so the image
\* is stored and the result reset.
readerOnload(file) ==
    /\ file \in reading
    /\ reading' = reading \ {file}
    /\ uploadedImage' = file
    /\ verificationResult' = NullResult
    /\ resultFrom' = NoInputs
    /\ UNCHANGED <<mounted, nets, cameraVars, cameraImage, isLoading, verifyCalls,
                   last>>

\* The read fails: onload never fires.
readerFails(file) ==
    /\ file \in reading
    /\ reading' = reading \ {file}
    /\ UNCHANGED <<mounted, nets, cameraVars, uploadedImage, cameraImage,
                   verificationResult, isLoading, verifyCalls, last, resultFrom>>

(* ---------------------------- verification ---------------------------- *)

\* toFixed(1) of the double computed for num/den (num >= 0, den > 0), in
\* tenths: the nearest tenth.  Where num/den lies exactly halfway between
\* two tenths the double lies a rounding error above or below it, so either
\* tenth can be the one printed.
ToFixed1(num, den) ==
    LET lo == (10 * num) \div den
        r == (10 * num) % den
    IN IF 2 * r < den THEN {lo}
       ELSE IF 2 * r > den THEN {lo + 1}
       ELSE {lo, lo + 1}

\* isMatch with the comparison made inclusive.
isMatchInclusive(distance) == distance <= threshold

\* const isMatch = distance < threshold
isMatch(distance) == distance < threshold

\* Confidence with the "1 -" left out.
ConfidenceOfRatio(distance) == ToFixed1(distance * 100, threshold)

\* ((1 - distance / threshold) * 100).toFixed(1), in tenths of a percent
Confidence(distance) == ToFixed1((threshold - distance) * 100, threshold)

\* The strings that can be handed to setVerificationResult on the
\* two-descriptor path.
Verdict(distance) ==
    IF isMatch(distance)
       THEN {Match(tenths) : tenths \in Confidence(distance)}
       ELSE {NoMatch}

\* BothDetected with || in place of &&.
EitherDetected(u, k) == u = "desc" \/ k = "desc"

\* if (uploadedDetections && cameraDetections)
BothDetected(u, k) == u = "desc" /\ k = "desc"

\* InputMissing with && in place of ||.
BothInputsMissing(ref, snap) == ref = 0 /\ snap = NullImage

\* if (!uploadedImage || !cameraImage)
InputMissing(ref, snap) == ref = 0 \/ snap = NullImage

\* VerifyDisabled without the busy flag.
DisabledOnInputsOnly == uploadedImage = 0 \/ cameraImage = NullImage

\* disabled={isLoading || !uploadedImage || !cameraImage}
VerifyDisabled == isLoading \/ uploadedImage = 0 \/ cameraImage = NullImage

\* The positions at which a verifyFaces invocation is suspended in an await.
Awaiting == {"fetchUploaded", "fetchCamera", "detectUploaded", "detectCamera"}

InFlight == {c \in VerifyIds : verifyCalls[c].pc \in Awaiting}

\* verifyFaces up to its first await: the early return on a missing input,
\* else the busy flag is set and the uploaded image is fetched.  The
\* invocation works on the images of the render it was created in.
verifyFaces(c) ==
    /\ verifyCalls[c].pc = "idle"
    /\ \A b \in VerifyIds : b < c => verifyCalls[b].pc # "idle"
    /\ IF InputMissing(uploadedImage, cameraImage)
          THEN /\ verificationResult' = MissingInput
               /\ resultFrom' = Inputs(uploadedImage, cameraImage)
               /\ verifyCalls' = [verifyCalls EXCEPT ![c] =
                      [@ EXCEPT !.pc = "returned"]]
               /\ UNCHANGED isLoading
          ELSE /\ isLoading' = TRUE
               /\ verifyCalls' = [verifyCalls EXCEPT ![c] =
                      [@ EXCEPT !.pc = "fetchUploaded", !.ref = uploadedImage,
                                !.snap = cameraImage]]
               /\ UNCHANGED <<verificationResult, resultFrom>>
    /\ UNCHANGED <<mounted, nets, cameraVars, uploadedImage, cameraImage, reading,
                   last>>

\* The Verify Faces button: a disabled button dispatches no click.
ClickVerify(c) ==
    /\ mounted
    /\ ~VerifyDisabled
    /\ verifyFaces(c)

\* verifyFaces invoked as an operation, with inputs present or absent, by a
\* caller that waits for the run in flight to end.
CallVerify(c) ==
    /\ mounted
    /\ ~isLoading
    /\ verifyFaces(c)

\* An end of the invocation without the finally block: the busy flag stays
\* set.
FinishStaysBusy(c, run) ==
    /\ verifyCalls' = [verifyCalls EXCEPT ![c] = [IdleCall EXCEPT !.pc = "done"]]
    /\ last' = run
    /\ verificationResult' = run.wrote
    /\ resultFrom' = Inputs(verifyCalls[c].ref, verifyCalls[c].snap)
    /\ UNCHANGED isLoading

\* The invocation ends: its result goes to the result slot and the finally
\* block clears the busy flag.
Finish(c, run) ==
    /\ verifyCalls' = [verifyCalls EXCEPT ![c] = [IdleCall EXCEPT !.pc = "done"]]
    /\ last' = run
    /\ verificationResult' = run.wrote
    /\ resultFrom' = Inputs(verifyCalls[c].ref, verifyCalls[c].snap)
    /\ isLoading' = FALSE

\* Catch without the catch block: the finally block runs and the error
\* leaves verifyFaces.
Rethrow(c, u, k) ==
    /\ verifyCalls' = [verifyCalls EXCEPT ![c] = [IdleCall EXCEPT !.pc = "unhandled"]]
    /\ last' = Run(u, k, -1, TRUE, NullResult)
    /\ isLoading' = FALSE
    /\ UNCHANGED <<verificationResult, resultFrom>>

\* catch (error) { ... } finally { ... }, with the detections resolved so far
Catch(c, u, k) ==
    Finish(c, Run(u, k, -1, TRUE, VerificationError))

\* await faceapi.fetchImage(...) resolves, for the uploaded image and then
\* for the camera image.
fetchImageResolves(c) ==
    /\ verifyCalls[c].pc \in {"fetchUploaded", "fetchCamera"}
    /\ verifyCalls' = [verifyCalls EXCEPT ![c].pc =
           IF @ = "fetchUploaded" THEN "fetchCamera" ELSE "detectUploaded"]
    /\ UNCHANGED <<mounted, nets, cameraVars, uploadedImage, cameraImage,
                   verificationResult, isLoading, reading, last, resultFrom>>

\* A verdict taken as soon as the detection of the uploaded image resolves,
\* with the detection of the camera image not yet run.
decidesOnUploadedDetection(c, det) ==
    /\ verifyCalls[c].pc = "detectUploaded"
    /\ nets = "loaded"
    /\ \E d \in {0, threshold} : \E result \in Verdict(d) :
           Finish(c, Run(det, "pending", d, FALSE, result))
    /\ UNCHANGED <<mounted, nets, cameraVars, uploadedImage, cameraImage, reading>>

\* The detection of the uploaded image resolves, with a descriptor
\* ("desc") or with undefined ("none").  A network that is not loaded
\* throws when it is run, so a detection resolves only with the networks
\* loaded; otherwise it rejects.
uploadedDetectionResolves(c, det) ==
    /\ verifyCalls[c].pc = "detectUploaded"
    /\ nets = "loaded"
    /\ verifyCalls' = [verifyCalls EXCEPT ![c] =
           [@ EXCEPT !.pc = "detectCamera", !.uploadedDetections = det]]
    /\ UNCHANGED <<mounted, nets, cameraVars, uploadedImage, cameraImage,
                   verificationResult, isLoading, reading, last, resultFrom>>

\* The detection of the camera image resolves and the invocation runs to
\* its end: with two descriptors, at distance d, the verdict; else the
\* no-face message.
cameraDetectionResolves(c, det, d) ==
    /\ verifyCalls[c].pc = "detectCamera"
    /\ nets = "loaded"
    /\ LET u == verifyCalls[c].uploadedDetections
       IN IF BothDetected(u, det)
             THEN \E result \in Verdict(d) :
                      Finish(c, Run(u, det, d, FALSE, result))
             ELSE Finish(c, Run(u, det, -1, FALSE, NoFaceDetected))
    /\ UNCHANGED <<mounted, nets, cameraVars, uploadedImage, cameraImage, reading>>

\* The detection of the camera image resolves with a descriptor and
\* faceapi.euclideanDistance throws.
euclideanDistanceThrows(c) ==
    /\ verifyCalls[c].pc = "detectCamera"
    /\ nets = "loaded"
    /\ BothDetected(verifyCalls[c].uploadedDetections, "desc")
    /\ Catch(c, verifyCalls[c].uploadedDetections, "desc")
    /\ UNCHANGED <<mounted, nets, cameraVars, uploadedImage, cameraImage, reading>>

\* An awaited fetch or detection rejects (for a detection: no face-api
\* network loaded, or any other failure).
awaitRejects(c) ==
    /\ verifyCalls[c].pc \in Awaiting
    /\ Catch(c, verifyCalls[c].uploadedDetections, "pending")
    /\ UNCHANGED <<mounted, nets, cameraVars, uploadedImage, cameraImage, reading>>

(* ------------------------- specifications ----------------------------- *)

\* The distances the verification runs are given: the least, the middle of
\* the match range, the last below the threshold and the threshold itself.
DistanceSamples == {0, threshold \div 2, threshold - 1, threshold}

Detections == {"desc", "none"}
Frames == {"blank", "live", "stale"}

CameraNext ==
    \/ \E c \in StartIds : startCamera(c)
    \/ \E c \in StartIds : getUserMediaResolves(c)
    \/ \E c \in StartIds : getUserMediaRejects(c)
    \/ \E c \in StartIds : playResolves(c)
    \/ \E c \in StartIds : playRejects(c)
    \/ \E kind \in Frames, n \in ImageIds : captureImage(kind, n)
    \/ Unmount

PipelineNext ==
    \/ \E c \in VerifyIds : fetchImageResolves(c)
    \/ \E c \in VerifyIds, det \in Detections : uploadedDetectionResolves(c, det)
    \/ \E c \in VerifyIds, det \in Detections, d \in DistanceSamples :
           cameraDetectionResolves(c, det, d)
    \/ \E c \in VerifyIds : euclideanDistanceThrows(c)
    \/ \E c \in VerifyIds : awaitRejects(c)

LoadNext ==
    \/ loadModelsResolves
    \/ loadModelsRejects

InputNext ==
    \/ \E file \in 0..MaxImages : handleImageUpload(file)
    \/ \E file \in ImageIds : readerOnload(file)
    \/ \E file \in ImageIds : readerFails(file)
    \/ \E kind \in Frames, n \in ImageIds : captureImage(kind, n)
    \/ Unmount

\* The camera as the verification runs find it: never started, or streaming
\* (one startCamera invocation that ran to its end).
Streaming ==
    /\ streamRef = 1
    /\ srcObject = 1
    /\ tracks = [s \in StartIds |-> IF s = 1 THEN "live" ELSE "none"]
    /\ startPc = [c \in StartIds |-> IF c = 1 THEN "done" ELSE "idle"]

NeverStarted ==
    /\ streamRef = 0
    /\ srcObject = 0
    /\ tracks = [s \in StartIds |-> "none"]
    /\ startPc = [c \in StartIds |-> "idle"]

InitVerify ==
    /\ mounted = TRUE
    /\ uploadedImage = 0
    /\ cameraImage = NullImage
    /\ verificationResult = NullResult
    /\ isLoading = FALSE
    /\ nets = "loading"
    /\ reading = {}
    /\ verifyCalls = [c \in VerifyIds |-> IdleCall]
    /\ last = NoRun
    /\ resultFrom = NoInputs
    /\ (NeverStarted \/ Streaming)

\* A verification run about to decide: both images present, both fetched,
\* the uploaded image's descriptor extracted, the camera image's awaited.
InitDecision ==
    /\ mounted = TRUE
    /\ uploadedImage = 1
    /\ cameraImage = [frame |-> "live", n |-> 1]
    /\ verificationResult = NullResult
    /\ isLoading = TRUE
    /\ nets = "loaded"
    /\ reading = {}
    /\ verifyCalls = [c \in VerifyIds |->
           IF c = 1
              THEN [IdleCall EXCEPT !.pc = "detectCamera", !.ref = 1,
                        !.snap = [frame |-> "live", n |-> 1],
                        !.uploadedDetections = "desc"]
              ELSE IdleCall]
    /\ last = NoRun
    /\ resultFrom = NoInputs
    /\ Streaming

DecisionNext ==
    /\ verifyCalls[1].pc = "detectCamera"
    /\ \E d \in 0..MaxDistance : cameraDetectionResolves(1, "desc", d)

VerifyNext ==
    \/ LoadNext
    \/ InputNext
    \/ \E c \in VerifyIds : ClickVerify(c)
    \/ PipelineNext

ApiNext ==
    \/ LoadNext
    \/ InputNext
    \/ \E c \in VerifyIds : CallVerify(c)
    \/ PipelineNext

Next ==
    \/ LoadNext
    \/ CameraNext
    \/ \E file \in 0..MaxImages : handleImageUpload(file)
    \/ \E file \in ImageIds : readerOnload(file)
    \/ \E file \in ImageIds : readerFails(file)
    \/ \E c \in VerifyIds : ClickVerify(c)
    \/ PipelineNext

\* One startCamera invocation.
OneStartNext ==
    \/ startCamera(1)
    \/ getUserMediaResolves(1)
    \/ getUserMediaRejects(1)
    \/ playResolves(1)
    \/ playRejects(1)

PageNext ==
    \/ OneStartNext
    \/ VerifyNext

\* The whole page, driven through its buttons.
Spec == Init /\ [][Next]_vars

\* The whole page, driven through its buttons, with Start Camera pressed
\* at most once.
SpecPage == Init /\ [][PageNext]_vars

\* The capture device and the snapshot alone.
SpecCamera == Init /\ [][CameraNext]_vars

\* The inputs and the verification, driven through the buttons, with the
\* camera never started or streaming.
SpecVerify == InitVerify /\ [][VerifyNext]_vars

\* The same, with every awaited fetch and detection eventually resolving or
\* rejecting.
SpecVerifyFair == SpecVerify /\ WF_vars(PipelineNext)

\* The same with verifyFaces invoked as an operation, whatever the inputs.
SpecApi == InitVerify /\ [][ApiNext]_vars

\* The decision of one verification run, over every distance.
SpecDecision == InitDecision /\ [][DecisionNext]_vars

(* ------------------------------ claims -------------------------------- *)

\* C1: every stream the device ever returned, other than the one held in
\* streamRef, has had its tracks stopped.
C1_OnlyHeldStreamLive ==
    \A s \in StartIds : tracks[s] = "live" => streamRef = s

\* C2: a result in the result slot was produced from exactly the reference
\* image and the snapshot that are current.
C2_ResultFromCurrentInputs ==
    verificationResult # NullResult
        => resultFrom = Inputs(uploadedImage, cameraImage)

\* C3: at most one verifyFaces invocation is in flight; one is in flight
\* exactly while the busy flag is set, which disables the trigger; and an
\* invocation in flight was started with both inputs present.
C3_AtMostOneVerifyInFlight ==
    /\ Cardinality(InFlight) <= 1
    /\ isLoading <=> InFlight # {}
    /\ \A c \in InFlight :
           verifyCalls[c].ref # 0 /\ verifyCalls[c].snap # NullImage

\* A second run is in flight after the first one ended.
C3_Witness ==
    /\ verifyCalls[1].pc = "done"
    /\ verifyCalls[2].pc \in Awaiting
    /\ isLoading

\* C4: the snapshot is non-empty only if it was taken from an active
\* stream: captureImage never stores a blank (or stale) image.
C4_SnapshotFromActiveStream ==
    cameraImage # NullImage => cameraImage.frame = "live"

\* C5: after the component is torn down no stream is left with un-stopped
\* tracks.
C5_NoLiveStreamAfterTeardown ==
    ~mounted => \A s \in StartIds : tracks[s] # "live"

\* C6: a verifyFaces invocation made with the reference image or the
\* snapshot absent returns at once: it stores the missing-input message,
\* is not suspended at a fetch or a detection, and leaves the busy flag as
\* it was.
C6_MissingInputReturnsAtOnce ==
    [][\A c \in VerifyIds :
          ( /\ verifyCalls[c].pc = "idle"
            /\ verifyCalls'[c].pc # "idle"
            /\ (uploadedImage = 0 \/ cameraImage = NullImage) )
          => ( /\ verifyCalls'[c].pc = "returned"
               /\ verificationResult' = MissingInput
               /\ isLoading' = isLoading
               /\ ~isLoading' )]_vars

\* An invocation returned early with the snapshot present and the
\* reference image absent.
C6_Witness ==
    /\ \E c \in VerifyIds : verifyCalls[c].pc = "returned"
    /\ verificationResult = MissingInput
    /\ uploadedImage = 0
    /\ cameraImage # NullImage
    /\ ~isLoading

\* C7: a run whose two detections resolved, one of them without a
\* descriptor, wrote the no-face message; a run that wrote Match or NoMatch
\* had a descriptor from both.
C7_NoFaceNeverDecides ==
    /\ last.wrote.kind \in {"Match", "NoMatch"}
           => last.uploadedDetections = "desc" /\ last.cameraDetections = "desc"
    /\ ( /\ last.uploadedDetections # "pending"
         /\ last.cameraDetections # "pending"
         /\ "none" \in {last.uploadedDetections, last.cameraDetections} )
           => last.wrote = NoFaceDetected

\* A run ended with a descriptor for the snapshot and none for the
\* reference image.
C7_Witness ==
    /\ last.uploadedDetections = "none"
    /\ last.cameraDetections = "desc"
    /\ last.wrote = NoFaceDetected
    /\ verificationResult = NoFaceDetected

\* C8: with both descriptors present the run writes Match exactly when the
\* distance is below 0.6 (60000 units), and NoMatch otherwise.
C8_MatchIffBelowThreshold ==
    last.distance >= 0
        => /\ last.wrote.kind = "Match" <=> last.distance < 60000
           /\ last.wrote.kind # "Match" => last.wrote = NoMatch

\* A run decided at a distance of exactly 0.6.
C8_Witness ==
    /\ last.distance = 60000
    /\ last.wrote = NoMatch
    /\ verificationResult = NoMatch

\* The confidence written by the last run is (1 - distance/0.6) * 100 to
\* the nearest tenth: it is within half a tenth of it.
NearestTenth ==
    LET c == last.wrote.confidence
        exact == 1000 * (60000 - last.distance)   \* tenths, times 60000
        diff == c * 60000 - exact
    IN /\ 2 * diff <= 60000
       /\ 2 * diff >= -60000

\* C9 as stated: the confidence of a Match is (1 - distance/0.6) * 100 to one
\* decimal place, 50.0 at distance 0.3 and 100.0 at distance 0, and the
\* confidence at any larger distance is strictly smaller.
C9_StrictlyDecreasing ==
    last.wrote.kind = "Match"
        => /\ NearestTenth
           /\ last.distance = 30000 => last.wrote.confidence = 500
           /\ last.distance = 0 => last.wrote.confidence = 1000
           /\ isMatch(last.distance + 1)
                  => \A t \in Confidence(last.distance + 1) :
                         t < last.wrote.confidence

\* C9 as amended: the confidence of a Match is (1 - distance/0.6) * 100 to
\* one decimal place, 50.0 at distance 0.3 and 100.0 at distance 0; the
\* confidence at a larger distance is never larger, and it is strictly
\* smaller when the distance is larger by more than 0.0006.
C9_NonIncreasing ==
    last.wrote.kind = "Match"
        => /\ NearestTenth
           /\ last.distance = 30000 => last.wrote.confidence = 500
           /\ last.distance = 0 => last.wrote.confidence = 1000
           /\ isMatch(last.distance + 1)
                  => \A t \in Confidence(last.distance + 1) :
                         t <= last.wrote.confidence
           /\ isMatch(last.distance + 61)
                  => \A t \in Confidence(last.distance + 61) :
                         t < last.wrote.confidence

\* A run decided Match at a distance of 0.3.
C9_Witness ==
    /\ last.distance = 30000
    /\ last.wrote = Match(500)
    /\ verificationResult = Match(500)

\* C10: a run in which a fetch, a detection or the distance computation
\* threw wrote the verification-error message; no invocation ends with the
\* error unhandled; and with no invocation in flight the busy flag is
\* clear.
C10_FailuresBecomeErrorResult ==
    /\ last.threw => last.wrote = VerificationError
    /\ \A c \in VerifyIds : verifyCalls[c].pc # "unhandled"
    /\ InFlight = {} => ~isLoading

\* The distance computation threw and the run ended.
C10_Witness ==
    /\ last.threw
    /\ last.cameraDetections = "desc"
    /\ verificationResult = VerificationError
    /\ InFlight = {}
    /\ ~isLoading

\* C11: a verifyFaces invocation made with both inputs present while the
\* networks are not loaded (still loading, or failed to load) ends at once
\* with a model-not-ready outcome: it is not suspended at a fetch or a
\* detection.
C11_FailsFastWhenNotReady ==
    [][\A c \in VerifyIds :
          ( /\ verifyCalls[c].pc = "idle"
            /\ verifyCalls'[c].pc # "idle"
            /\ uploadedImage # 0
            /\ cameraImage # NullImage
            /\ nets # "loaded" )
          => ( /\ verifyCalls'[c].pc \notin Awaiting
               /\ verificationResult'.kind = "model-not-ready" )]_vars

\* C12: when the device request of a startCamera invocation is rejected,
\* the invocation ends reporting the error (it does not throw) and no
\* stream is left with un-stopped tracks.
C12_RejectedStartLeavesNoStream ==
    [][\A c \in StartIds :
          (startPc[c] = "requesting" /\ startPc'[c] # "requesting"
               /\ tracks'[c] = "none")
          => ( /\ startPc'[c] = "failed"
               /\ \A s \in StartIds : tracks'[s] # "live" )]_vars

\* C13: a step that replaces the reference image or the snapshot leaves no
\* result on display and, when no verification was in flight, none in flight
\* either; a step that sets a result is a step of a verifyFaces invocation; and a step of the camera (starting it, a device grant or
\* refusal, playback, teardown) leaves the result as it was.
C13_ResultLifecycle ==
    [][ /\ (uploadedImage' # uploadedImage \/ cameraImage' # cameraImage)
            => /\ verificationResult' = NullResult
               /\ InFlight = {} => \A c \in VerifyIds :
                                       verifyCalls'[c].pc \notin Awaiting
        /\ (verificationResult' # verificationResult
                /\ verificationResult' # NullResult)
            => \E c \in VerifyIds : verifyCalls'[c].pc # verifyCalls[c].pc
        /\ (startPc' # startPc \/ tracks' # tracks \/ streamRef' # streamRef
                \/ srcObject' # srcObject \/ mounted' # mounted)
            => verificationResult' = verificationResult ]_vars

\* A match was displayed, then an input was replaced while the camera was
\* streaming, and nothing is displayed any more.
C13_Witness ==
    /\ last.wrote.kind = "Match"
    /\ streamRef = 1 /\ tracks[1] = "live"
    /\ InFlight = {}
    /\ verificationResult = NullResult

\* C14: in the step in which a startCamera invocation issues its device
\* request, every track of the stream held at that moment is stopped: the
\* request is never outstanding while the stream that was held at the
\* invocation's entry is still live.
C14_ReleaseBeforeRequest ==
    [][\A c \in StartIds :
          (startPc[c] = "idle" /\ startPc'[c] = "requesting" /\ streamRef # 0)
          => tracks'[streamRef] = "stopped"]_vars

\* A second invocation has its request outstanding, and the stream that was
\* held and live when it began is stopped.
C14_Witness ==
    /\ startPc[1] \in {"playing", "done"}
    /\ startPc[2] = "requesting"
    /\ streamRef = 1
    /\ tracks[1] = "stopped"

\* C15: a step that writes Match or NoMatch is the last step of a
\* verifyFaces invocation whose detection of the uploaded image had already
\* resolved and whose detection of the camera image resolves in that step,
\* and the distance was computed for it; while an invocation still awaits a
\* fetch or the detection of the uploaded image its steps write no result.
C15_DecisionAfterBothExtractions ==
    [][ /\ ( /\ verificationResult' # verificationResult
             /\ verificationResult'.kind \in {"Match", "NoMatch"} )
            => \E c \in VerifyIds :
                   /\ verifyCalls[c].pc = "detectCamera"
                   /\ verifyCalls'[c].pc = "done"
                   /\ verifyCalls[c].uploadedDetections # "pending"
                   /\ last'.uploadedDetections = verifyCalls[c].uploadedDetections
                   /\ last'.cameraDetections # "pending"
                   /\ last'.distance >= 0
        /\ \A c \in VerifyIds :
               ( /\ verifyCalls[c].pc \in {"fetchUploaded", "fetchCamera",
                                           "detectUploaded"}
                 /\ verifyCalls'[c].pc \in Awaiting
                 /\ verifyCalls'[c].pc # verifyCalls[c].pc )
               => verificationResult' = verificationResult ]_vars

\* A run whose two detections resolved with descriptors decided a match at
\* distance 0.
C15_Witness ==
    /\ last.uploadedDetections = "desc"
    /\ last.cameraDetections = "desc"
    /\ last.distance = 0
    /\ verificationResult = Match(1000)
    /\ InFlight = {}

\* C16: with every awaited fetch and detection eventually resolving or
\* rejecting, whenever a verifyFaces invocation is in flight there comes a
\* state with none in flight and the busy flag clear; the busy flag is set
\* only while an invocation is in flight; an invocation leaves the awaiting
\* states only by ending, and the step that ends it writes its one result
\* (match, no match, no face or error) and clears the flag, while its
\* earlier steps write none.
C16_VerifyingEventuallyEnds ==
    /\ (InFlight # {}) ~> (InFlight = {} /\ ~isLoading)
    /\ [](isLoading => InFlight # {})
    /\ [][\A c \in VerifyIds :
              (verifyCalls[c].pc \in Awaiting
                   /\ verifyCalls'[c].pc # verifyCalls[c].pc)
              => IF verifyCalls'[c].pc = "done"
                    THEN /\ ~isLoading'
                         /\ verificationResult' = last'.wrote
                         /\ verificationResult'.kind \in
                                {"Match", "NoMatch", "no-face-detected",
                                 "verification-error"}
                    ELSE /\ verifyCalls'[c].pc \in Awaiting
                         /\ isLoading'
                         /\ verificationResult' = verificationResult]_vars

\* Two invocations entered the busy state and both left it: the busy flag
\* is clear and the trigger is enabled again.
C16_Witness ==
    /\ \A c \in VerifyIds : verifyCalls[c].pc = "done"
    /\ ~isLoading
    /\ ~VerifyDisabled

\* C17: a step that changes the snapshot changes nothing of the capture
\* device (the held stream, the video element's stream, any stream's tracks,
\* any startCamera invocation) and leaves the reference image, the pending
\* reads, the verification runs, the busy flag and the networks as they
\* were.
C17_CaptureLeavesControllerAlone ==
    [][cameraImage' # cameraImage
          => UNCHANGED <<mounted, cameraVars, uploadedImage, reading, isLoading,
                         nets, verifyCalls, last>>]_vars

\* A second snapshot was taken from the stream after a run had ended: the
\* stream is still held and live, and the reference image still present.
C17_Witness ==
    /\ cameraImage = [frame |-> "live", n |-> 2]
    /\ streamRef = 1 /\ srcObject = 1 /\ tracks[1] = "live"
    /\ uploadedImage # 0
    /\ last # NoRun
    /\ verificationResult = NullResult

\* C18: a run that wrote Match reported a confidence above 0.0% and at most
\* 100.0% (the confidence is held in tenths of a percent).
C18_MatchConfidencePositive ==
    last.wrote.kind = "Match"
        => last.wrote.confidence > 0 /\ last.wrote.confidence <= 1000

\* C19: a startCamera invocation that reported a camera access error
\* acquired no stream: an invocation whose device request succeeded does
\* not end reporting an error, so none leaves an acquired stream behind it.
C19_ErrorOnlyWithoutStream ==
    \A c \in StartIds : startPc[c] = "failed" => tracks[c] = "none"

====
